---- MODULE Spec2Model ----
(***************************************************************************)
(* Verification pipeline and template decision cache of autoaudit:         *)
(* HybridComplianceChecker.check_url (server/core/main_hybrid.py), the     *)
(* TemplateManager decision cache (server/core/template_manager.py), its   *)
(* SQLite table template_rules (server/core/database.py) and the operator  *)
(* routes on that table (server/api/routes/templates.py), and the          *)
(* extraction template resolver (server/core/extraction_templates.py).     *)
(*                                                                         *)
(* Confidences are Python floats in [0.0, 1.0]; the model keeps them as    *)
(* integer hundredths (0.85 is 85), which preserves every comparison.      *)
(***************************************************************************)
EXTENDS Integers, Sequences, FiniteSets, TLC

\* ------------------------------------------------------------------ bounds
MaxViolations == 2      \* longest violation list the text model returns
MaxSelectLen == 3       \* longest violation list in the selection specification
MaxChecks == 2          \* check_url runs started in one behaviour
MaxOperatorOps == 1     \* operator PUT/DELETE requests during the checks
MaxClock == 1           \* CURRENT_TIMESTAMP ranges over 0..MaxClock
MaxSkipOps == 2         \* operator requests before direct should_skip calls

\* ------------------------------------------------------- program constants
confidence_threshold == 85   \* should_skip_visual_verification default
EscalationThreshold == 85    \* v.get('confidence', 1.0) < 0.85
DefaultConfidence == 100     \* v.get('confidence', 1.0)

\* Python dicts are records; a key the dict lacks is a field the record lacks.
\* None (no row, no dict) is a record of its own so that it compares with dicts.
None == [none |-> TRUE]
Get(d, k, default) == IF k \in DOMAIN d THEN d[k] ELSE default

HomepageRuleKey == "homepage_contact_visibility"

\* --------------------------------------------------------------- inputs
\* A scraped page: the URL's domain, the platform _detect_platform reports
\* and the marker substrings its HTML contains.
Pages ==
    { [domain |-> "a.com", platform |-> "dealer.com", html |-> {}],
      [domain |-> "b.com", platform |-> "unknown",    html |-> {}] }

PipelinePages == { p \in Pages : p.domain = "a.com" }

UrlTypes == {"VDP", "HOMEPAGE"}

TextRuleKeys == {"r1", "r2"}
RuleKeys == TextRuleKeys \cup {HomepageRuleKey}

\* ------------------------------------------------------ detect_template
detect_template(page) ==
    IF page.platform = "dealer.com" \/ "dealer.com" \in page.html
      THEN "dealer.com_vdp"
    ELSE IF page.platform = "DealerOn" \/ "dealeron" \in page.html
      THEN "dealeron_vdp"
    ELSE IF page.platform = "CDK"
      THEN "cdk_vdp"
    ELSE IF page.platform = "AutoTrader"
      THEN "autotrader_vdp"
    ELSE "custom_" \o page.domain

TemplateIds == { detect_template(p) : p \in Pages }
PipelineTemplateIds == { detect_template(p) : p \in PipelinePages }

\* ------------------------------------------------- table template_rules
\* A row of template_rules; UNIQUE(template_id, rule_key) is the conflict
\* target of save_template_rule.
RowsAt(rules, t, r) == { row \in rules : row.template_id = t /\ row.rule_key = r }

\* A decision: the arguments of one upsert.
Decision(status, confidence, method, notes) ==
    [status |-> status, confidence |-> confidence,
     verification_method |-> method, notes |-> notes]

DecisionOf(row) ==
    Decision(row.status, row.confidence, row.verification_method, row.notes)

NewRow(t, r, d, ts) ==
    [template_id |-> t, rule_key |-> r, status |-> d.status,
     confidence |-> d.confidence, verification_method |-> d.verification_method,
     notes |-> d.notes, verified_date |-> ts]

\* Mutant: INSERT OR IGNORE, an existing row keeps its old decision.
save_template_rule_insert_or_ignore(rules, t, r, d, ts) ==
    IF RowsAt(rules, t, r) = {}
      THEN rules \cup {NewRow(t, r, d, ts)}
      ELSE rules

\* Mutant: DO UPDATE SET leaves verification_method and notes out, so a row
\* mixes the fields of two writes.
save_template_rule_partial_update(rules, t, r, d, ts) ==
    IF RowsAt(rules, t, r) = {}
      THEN rules \cup {NewRow(t, r, d, ts)}
      ELSE { IF row \in RowsAt(rules, t, r)
               THEN [row EXCEPT !.status = d.status, !.confidence = d.confidence,
                                !.verified_date = ts]
               ELSE row : row \in rules }

\* Mutant: REPLACE of the template's rows, the other rules of t are lost.
save_template_rule_replace_template(rules, t, r, d, ts) ==
    { row \in rules : row.template_id # t } \cup {NewRow(t, r, d, ts)}

\* INSERT ... ON CONFLICT(template_id, rule_key) DO UPDATE SET ...
save_template_rule(rules, t, r, d, ts) ==
    IF RowsAt(rules, t, r) = {}
      THEN rules \cup {NewRow(t, r, d, ts)}
      ELSE (rules \ RowsAt(rules, t, r)) \cup {NewRow(t, r, d, ts)}

\* SELECT * FROM template_rules WHERE template_id = ? AND rule_key = ?; fetchone
get_template_rule(rules, t, r) ==
    IF RowsAt(rules, t, r) = {} THEN None
    ELSE CHOOSE row \in RowsAt(rules, t, r) : TRUE

\* DELETE FROM template_rules WHERE template_id = ? AND rule_key = ?
delete_rule(rules, t, r) == rules \ RowsAt(rules, t, r)

\* INSERT INTO templates ... ON CONFLICT(template_id) DO UPDATE SET platform
save_template(tpls, t, platform) ==
    { row \in tpls : row.template_id # t } \cup
    {[template_id |-> t, platform |-> platform]}

get_template_row(tpls, t) ==
    IF \E row \in tpls : row.template_id = t
      THEN CHOOSE row \in tpls : row.template_id = t
      ELSE None

\* ------------------------------------------------ TemplateManager (cache)
get_rule_status(rules, t, r) ==
    LET rule_data == get_template_rule(rules, t, r)
    IN  IF rule_data = None THEN None
        ELSE [status |-> rule_data.status, confidence |-> rule_data.confidence,
              verified_date |-> rule_data.verified_date,
              verification_method |-> rule_data.verification_method,
              notes |-> rule_data.notes]

\* Mutant: confidence > threshold, the boundary is not skipped.
should_skip_above_threshold(rules, t, r, threshold) ==
    LET rule_status == get_rule_status(rules, t, r)
    IN  IF rule_status = None THEN FALSE
        ELSE rule_status.confidence > threshold

\* Mutant: only 'compliant' decisions are skipped.
should_skip_compliant_only(rules, t, r, threshold) ==
    LET rule_status == get_rule_status(rules, t, r)
    IN  IF rule_status = None THEN FALSE
        ELSE rule_status.confidence >= threshold /\ rule_status.status = "compliant"

\* Mutant: the cache is never trusted.
should_skip_never(rules, t, r, threshold) == FALSE

should_skip_visual_verification(rules, t, r, threshold) ==
    LET rule_status == get_rule_status(rules, t, r)
    IN  IF rule_status = None THEN FALSE
        ELSE rule_status.confidence >= threshold

\* update_rule_status: create the template row when absent, then upsert.
update_rule_status_templates(tpls, t) ==
    IF get_template_row(tpls, t) = None THEN save_template(tpls, t, "unknown")
    ELSE tpls

\* Mutant: the upsert is forgotten.
update_rule_status_not_saved(rules, t, r, d, ts) == rules

update_rule_status_rules(rules, t, r, d, ts) == save_template_rule(rules, t, r, d, ts)

\* ================================================== extraction templates
\* str.lower() on the url types and platforms that occur
Lower(str) ==
    CASE str = "VDP" -> "vdp"
      [] str = "HOMEPAGE" -> "homepage"
      [] str = "OTHER" -> "other"
      [] str = "DealerOn" -> "dealeron"
      [] OTHER -> str

\* urlparse(url).netloc.replace('www.', '')
NormalizeDomain(netloc) ==
    CASE netloc = "www.a.com" -> "a.com"
      [] OTHER -> netloc

\* domain.replace('.', '_')
DotsToUnderscores(domain) ==
    CASE domain = "a.com" -> "a_com"
      [] domain = "b.com" -> "b_com"
      [] domain = "c.com" -> "c_com"
      [] domain = "d.com" -> "d_com"
      [] OTHER -> domain

url_template_id(netloc) == "url_" \o DotsToUnderscores(NormalizeDomain(netloc))
type_template_id(url_type) == Lower(url_type) \o "_default"
\* platform.lower().replace(' ', '_') + "_vdp" (no platform here has a space)
platform_template_id(platform) == Lower(platform) \o "_vdp"

\* A row of table extraction_templates; every template has contents of its own.
TemplateRow(template_id, platform) ==
    [template_id |-> template_id, platform |-> platform,
     selectors |-> { <<template_id \o "_section", "." \o template_id>> },
     cleanup_rules |-> [remove_selectors |-> {template_id \o "_noise"}],
     extraction_order |-> << template_id \o "_section" >>,
     created_at |-> 0]

\* _load_default_templates: the templates every ExtractionTemplateManager saves
DefaultTemplates ==
    { TemplateRow("vdp_default", "vdp"),
      TemplateRow("dealer.com_vdp", "dealer.com"),
      TemplateRow("homepage_default", "homepage"),
      TemplateRow("inventory_default", "inventory"),
      TemplateRow("specials_default", "specials"),
      TemplateRow("service_default", "service"),
      TemplateRow("financing_default", "financing"),
      TemplateRow("generic_fallback", "unknown") }

\* INSERT INTO extraction_templates ... ON CONFLICT(template_id) DO UPDATE
\* (created_at is not among the columns the conflict branch sets)
save_extraction_template(store, row) ==
    LET old == { o \in store : o.template_id = row.template_id }
    IN  (store \ old)
        \cup { IF old = {} THEN row
               ELSE [row EXCEPT !.created_at = (CHOOSE o \in old : TRUE).created_at] }

\* SELECT * FROM extraction_templates WHERE template_id = ?; fetchone
get_extraction_template(store, template_id) ==
    IF \E row \in store : row.template_id = template_id
      THEN CHOOSE row \in store : row.template_id = template_id
      ELSE None

_load_template(store, template_id) ==
    LET template_data == get_extraction_template(store, template_id)
    IN  IF template_data = None THEN None
        ELSE [template_id |-> template_data.template_id,
              platform |-> template_data.platform,
              selectors |-> template_data.selectors,
              cleanup_rules |-> template_data.cleanup_rules,
              extraction_order |-> template_data.extraction_order]

AttributeError == [error |-> "AttributeError"]

\* Mutant: a missing config yields a template of defaults.
ExtractionTemplate_defaults(config) ==
    IF config = None
      THEN [template_id |-> "unknown", platform |-> "unknown", selectors |-> {},
            cleanup_rules |-> None, extraction_order |-> <<>>]
      ELSE [template_id |-> config.template_id, platform |-> config.platform,
            selectors |-> config.selectors, cleanup_rules |-> config.cleanup_rules,
            extraction_order |-> config.extraction_order]

\* ExtractionTemplate.__init__: config.get(...) raises on a config of None
ExtractionTemplate(config) ==
    IF config = None THEN AttributeError
    ELSE [template_id |-> Get(config, "template_id", "unknown"),
          platform |-> Get(config, "platform", "unknown"),
          selectors |-> Get(config, "selectors", {}),
          cleanup_rules |-> Get(config, "cleanup_rules", None),
          extraction_order |-> Get(config, "extraction_order", <<>>)]

\* Mutant: the platform default is tried before the page-type default.
get_template_platform_first(store, netloc, platform, template_override, url_type) ==
    IF template_override # "" /\ _load_template(store, template_override) # None
      THEN ExtractionTemplate(_load_template(store, template_override))
    ELSE IF _load_template(store, url_template_id(netloc)) # None
      THEN ExtractionTemplate(_load_template(store, url_template_id(netloc)))
    ELSE IF /\ platform # "" /\ platform # "unknown"
            /\ _load_template(store, platform_template_id(platform)) # None
      THEN ExtractionTemplate(_load_template(store, platform_template_id(platform)))
    ELSE IF url_type # "" /\ _load_template(store, type_template_id(url_type)) # None
      THEN ExtractionTemplate(_load_template(store, type_template_id(url_type)))
    ELSE ExtractionTemplate(_load_template(store, "generic_fallback"))

\* ExtractionTemplateManager.get_template; "" stands for an argument that is
\* None or empty
get_template(store, netloc, platform, template_override, url_type) ==
    IF template_override # "" /\ _load_template(store, template_override) # None
      THEN ExtractionTemplate(_load_template(store, template_override))
    ELSE IF _load_template(store, url_template_id(netloc)) # None
      THEN ExtractionTemplate(_load_template(store, url_template_id(netloc)))
    ELSE IF url_type # "" /\ _load_template(store, type_template_id(url_type)) # None
      THEN ExtractionTemplate(_load_template(store, type_template_id(url_type)))
    ELSE IF /\ platform # "" /\ platform # "unknown"
            /\ _load_template(store, platform_template_id(platform)) # None
      THEN ExtractionTemplate(_load_template(store, platform_template_id(platform)))
    ELSE ExtractionTemplate(_load_template(store, "generic_fallback"))

\* ExtractionTemplate.extract: the text of every section of extraction_order
\* that has a selector matching an element of the page; has_content says
\* whether the page has such elements
extract(template, has_content) ==
    IF ~has_content THEN {}
    ELSE { <<template.extraction_order[k], template.extraction_order[k] \o "_text">> :
             k \in { j \in 1..Len(template.extraction_order) :
                       \E sel \in template.selectors :
                           sel[1] = template.extraction_order[j] } }

\* ExtractionTemplate.get_clean_html: self.cleanup_rules.get raises on None
get_clean_html(template) ==
    IF template.cleanup_rules = None THEN AttributeError
    ELSE [html |-> "body"]

\* ContentConverter: html_to_markdown, extract_sections, prepare_for_llm, on a
\* page whose text has a keyword of each section: the input holds the
\* keyword-anchored sections and the full content
ImportantSections == <<"pricing", "disclaimers", "inventory">>

prepare_for_llm(clean_html) ==
    [source |-> "fallback",
     sections |-> { <<ImportantSections[k], clean_html.html>> :
                        k \in 1..Len(ImportantSections) }
                  \cup { <<"full_content", clean_html.html>> }]

\* Mutant: the input is built from the extracted sections whatever they are.
llm_input_from_sections(extracted_sections, clean_html) ==
    [source |-> "template", sections |-> extracted_sections]

\* if extracted_sections: ... else: ... (main_hybrid.py:105-117)
build_llm_input(extracted_sections, clean_html) ==
    IF extracted_sections # {}
      THEN [source |-> "template", sections |-> extracted_sections]
      ELSE prepare_for_llm(clean_html)

\* ============================================================ check_url
\* A violation as returned by the text model.
Violation(rule_key, confidence, needs) ==
    [rule_key |-> rule_key, confidence |-> confidence,
     needs_visual_verification |-> needs]

\* The synthetic contact-visibility task appended for homepages.
SyntheticViolation ==
    [rule_key |-> HomepageRuleKey, needs_visual_verification |-> TRUE]

SeqsUpTo(S, n) == UNION { [1..k -> S] : k \in 0..n }

\* Violations of the pipeline specification, and the richer ones (absent
\* confidence or flag, boundary confidences) of the selection specification.
TextViolations ==
    { Violation(r, 60, TRUE) : r \in TextRuleKeys }
    \cup { Violation("r1", 85, TRUE) }
ViolationLists == SeqsUpTo(TextViolations, MaxViolations)

SelectViolations ==
    { Violation("r1", cf, nv) : cf \in {30, 60, 84, 85, 95}, nv \in BOOLEAN }
    \cup { [rule_key |-> "r1", needs_visual_verification |-> TRUE],
           [rule_key |-> "r1", confidence |-> 30] }
SelectLists == SeqsUpTo(SelectViolations, MaxSelectLen)

TextTokenValues == {11}

\* Outcomes of capture_and_verify (the parsed model reply).
VisualOutcomes ==
    [is_compliant : BOOLEAN, confidence : {60, 85}, tokens_used : {7},
     visual_evidence : {"evidence"}]

\* Decisions an operator PUTs.
OperatorDecisions ==
    { Decision("compliant", 90, "human", "override"),
      Decision("uncertain", 50, "human", "override") }

\* v.get('confidence', 1.0), v.get('needs_visual_verification', False)
ConfidenceOf(v) == Get(v, "confidence", DefaultConfidence)
NeedsVisualOf(v) == Get(v, "needs_visual_verification", FALSE)

\* Mutant: confidence <= 0.85.
needs_visual_filter_inclusive(v) ==
    NeedsVisualOf(v) /\ ConfidenceOf(v) <= EscalationThreshold

\* the condition of the list comprehension, main_hybrid.py:169
needs_visual_filter(v) == NeedsVisualOf(v) /\ ConfidenceOf(v) < EscalationThreshold

RECURSIVE default_needs_visual(_)
default_needs_visual(violations) ==
    IF violations = <<>> THEN <<>>
    ELSE IF needs_visual_filter(Head(violations))
      THEN <<Head(violations)>> \o default_needs_visual(Tail(violations))
      ELSE default_needs_visual(Tail(violations))

\* url_type.upper() == 'HOMEPAGE'
Upper(url_type) ==
    CASE url_type = "homepage" -> "HOMEPAGE"
      [] url_type = "vdp" -> "VDP"
      [] OTHER -> url_type
\* Mutant: the comparison is case-sensitive.
force_visual_case_sensitive(url_type) == url_type = "HOMEPAGE"

force_visual_for_homepage(url_type) == Upper(url_type) = "HOMEPAGE"

\* Mutant: skip_visual also suppresses the homepage escalation.
visual_stage_skip_only(skip_visual, url_type) == ~skip_visual

\* Mutant: skip_visual is ignored.
visual_stage_ignores_skip(skip_visual, url_type) == TRUE

\* if not skip_visual or force_visual_for_homepage
visual_stage_enabled(skip_visual, url_type) ==
    ~skip_visual \/ force_visual_for_homepage(url_type)

\* if force_visual_for_homepage and not needs_visual: needs_visual.append(...)
homepage_needs_visual(needs_visual, url_type) ==
    IF force_visual_for_homepage(url_type) /\ needs_visual = <<>>
      THEN Append(needs_visual, SyntheticViolation)
      ELSE needs_visual

\* the escalation list of a check (empty when the stage is disabled)
select_escalations(violations, skip_visual, url_type) ==
    IF visual_stage_enabled(skip_visual, url_type)
      THEN homepage_needs_visual(default_needs_visual(violations), url_type)
      ELSE <<>>

\* Mutant: every status but 'non_compliant' counts as compliant.
cached_visual_result_lenient(rule_key, cached) ==
    [rule_key |-> rule_key, cached |-> TRUE,
     is_compliant |-> (cached.status # "non_compliant"),
     confidence |-> cached.confidence, verification_method |-> "cached",
     notes |-> cached.notes]

\* the entry appended to visual_results on a cache hit
cached_visual_result(rule_key, cached) ==
    [rule_key |-> rule_key, cached |-> TRUE,
     is_compliant |-> (cached.status = "compliant"),
     confidence |-> cached.confidence, verification_method |-> "cached",
     notes |-> cached.notes]

\* the dict capture_and_verify returns: the model's JSON plus tokens_used,
\* verification_method and screenshot_path; it has no rule_key or cached key
fresh_visual_result(outcome) ==
    [is_compliant |-> outcome.is_compliant, confidence |-> outcome.confidence,
     visual_evidence |-> outcome.visual_evidence,
     tokens_used |-> outcome.tokens_used, verification_method |-> "visual"]

\* Mutant: the written status is the opposite of the verdict.
visual_decision_inverted(visual_result) ==
    Decision(IF visual_result.is_compliant THEN "non_compliant" ELSE "compliant",
             visual_result.confidence, "visual",
             Get(visual_result, "visual_evidence", ""))

\* the decision check_url upserts after a fresh verification
visual_decision(visual_result) ==
    Decision(IF visual_result.is_compliant THEN "compliant" ELSE "non_compliant",
             visual_result.confidence, "visual",
             Get(visual_result, "visual_evidence", ""))

\* ================================================================ state
Keys == TemplateIds \X RuleKeys

VARIABLES
    template_rules,   \* rows of table template_rules (the decision cache)
    templates,        \* rows of table templates
    now,              \* CURRENT_TIMESTAMP
    chk,              \* chk[c]: the locals of check_url run c and its position
    started,          \* number of check_url runs started so far
    ops,              \* number of operator requests served so far
    probe,            \* the last direct call of a function and its result
    extraction_templates, \* rows of table extraction_templates
    last_upsert       \* history: per key, the arguments of the last upsert
                      \* executed since the key was last deleted, and who made it

vars == <<template_rules, templates, now, chk, started, ops, probe, last_upsert,
         extraction_templates>>

IdleCheck ==
    [pc |-> "idle", serial |-> 0, page |-> None, url_type |-> "VDP",
     skip_visual |-> FALSE, template_id |-> "", violations |-> <<>>,
     text_tokens |-> 0, needs_visual |-> <<>>, i |-> 0, visual_results |-> <<>>,
     result |-> None,
     \* the ExtractionTemplate get_template returned
     extraction_template |-> None,
     \* what extract returned, and the text-analysis input built from it
     extracted_sections |-> {}, llm_input |-> None,
     \* the Playwright drivers and browsers the run started and has not closed
     open |-> {},
     \* history: the stage whose exception made check_url raise
     error |-> "",
     \* history: the stages the run has entered, in order
     stages |-> <<>>,
     \* history of the run: cache lookups of should_skip_visual_verification,
     \* rows read by get_rule_status, indices handed to capture_and_verify,
     \* upserts made
     lookups |-> <<>>, reads |-> <<>>, calls |-> <<>>, writes |-> <<>>]

InitCache(checks) ==
    /\ template_rules = {}
    /\ templates = {}
    /\ now = 0
    /\ chk = [c \in checks |-> IdleCheck]
    /\ started = 0
    /\ ops = 0
    /\ probe = [fn |-> "none"]
    /\ last_upsert = [k \in Keys |-> None]

\* the store as every ExtractionTemplateManager leaves it
InitWith(checks) ==
    /\ extraction_templates = DefaultTemplates
    /\ InitCache(checks)

\* one check_url run at a time
Init == InitWith({1})
\* two check_url runs side by side
InitConc == InitWith({1, 2})

Checks == DOMAIN chk

CacheVars == <<template_rules, templates, last_upsert>>

\* DealershipScraper.start(): the Playwright driver, then the browser
Started(n) == {"playwright" \o n, "browser" \o n}
\* what a start() that raised leaves running: nothing when
\* async_playwright().start() raised, the driver when chromium.launch raised
StartLeaves(n) == { {}, {"playwright" \o n} }
\* DealershipScraper.close(): browser.close(), playwright.stop()
close(open, n) == open \ Started(n)

\* the stage a raising call belongs to; the calls of the per-violation loop
\* are entered (and recorded) by ShouldSkip
StageOf(stage) ==
    CASE stage = "fetch" -> <<"Fetch">>
      [] stage \in {"navigate", "get_template"} -> <<"ResolveTemplate">>
      [] stage = "extract" -> <<"Extract">>
      [] stage = "text" -> <<"TextAnalyze">>
      [] stage = "report" -> <<"Aggregate">>
      [] OTHER -> <<>>

\* Mutant: the exception is swallowed and what there is gets returned.
FailReturnsPartial(c, stage, open) ==
    chk' = [chk EXCEPT ![c].pc = "done", ![c].error = stage, ![c].open = open,
                       ![c].stages = @ \o StageOf(stage),
                       ![c].result = [violations |-> chk[c].violations,
                                      visual_verifications |-> chk[c].visual_results]]

\* except Exception: raise (main_hybrid.py:275-277)
Fail(c, stage, open) ==
    chk' = [chk EXCEPT ![c].pc = "failed", ![c].error = stage, ![c].open = open,
                       ![c].stages = @ \o StageOf(stage)]

\* ------------------------------------------------------------ the stages
\* check_url is called: main_hybrid.py:50-70
StartCheck(c, pages, urlTypes) ==
    /\ chk[c].pc \in {"idle", "done", "failed"}
    /\ started < MaxChecks
    /\ \E page \in pages, url_type \in urlTypes, skip_visual \in BOOLEAN :
         chk' = [chk EXCEPT ![c] =
                   [IdleCheck EXCEPT !.pc = "fetch", !.serial = started + 1,
                                     !.page = page, !.url_type = url_type,
                                     !.skip_visual = skip_visual,
                                     !.open = Started("1")]]
    /\ started' = started + 1
    /\ UNCHANGED <<extraction_templates, CacheVars, now, ops, probe>>

\* check_url is called and scraper.start() raises: main_hybrid.py:69-70 are
\* outside the try whose finally closes the scraper
StartCheckFails(c, pages, urlTypes) ==
    /\ chk[c].pc \in {"idle", "done", "failed"}
    /\ started < MaxChecks
    /\ \E page \in pages, url_type \in urlTypes, skip_visual \in BOOLEAN,
          left \in StartLeaves("1") :
         chk' = [chk EXCEPT ![c] =
                   [IdleCheck EXCEPT !.pc = "failed", !.serial = started + 1,
                                     !.page = page, !.url_type = url_type,
                                     !.skip_visual = skip_visual,
                                     !.error = "start", !.open = left]]
    /\ started' = started + 1
    /\ UNCHANGED <<extraction_templates, CacheVars, now, ops, probe>>

\* Mutant: the cache key's template is the page type's on homepages.
FetchKeysByUrlType(c) ==
    /\ chk[c].pc = "fetch"
    /\ chk' = [chk EXCEPT ![c].pc = "resolve",
                          ![c].stages = Append(@, "Fetch"),
                          ![c].template_id =
                              IF chk[c].url_type = "HOMEPAGE" THEN "homepage_default"
                              ELSE detect_template(chk[c].page)]
    /\ UNCHANGED <<extraction_templates, CacheVars, now, started, ops, probe>>

\* scrape_page returns and detect_template names the cache key's template
Fetch(c) ==
    /\ chk[c].pc = "fetch"
    /\ chk' = [chk EXCEPT ![c].pc = "resolve",
                          ![c].stages = Append(@, "Fetch"),
                          ![c].template_id = detect_template(chk[c].page)]
    /\ UNCHANGED <<extraction_templates, CacheVars, now, started, ops, probe>>

FetchFails(c) ==
    /\ chk[c].pc = "fetch"
    /\ Fail(c, "fetch", close(chk[c].open, "1"))
    /\ UNCHANGED <<extraction_templates, CacheVars, now, started, ops, probe>>

\* new_page, goto, extraction_manager.get_template(url, platform, url_type)
ResolveTemplate(c) ==
    /\ chk[c].pc = "resolve"
    /\ LET extraction_template ==
               get_template(extraction_templates, chk[c].page.domain,
                            chk[c].page.platform, "", chk[c].url_type)
       IN  IF extraction_template = AttributeError
             THEN Fail(c, "get_template", close(chk[c].open, "1"))
             ELSE chk' = [chk EXCEPT ![c].pc = "extract",
                                     ![c].stages = Append(@, "ResolveTemplate"),
                                     ![c].extraction_template = extraction_template]
    /\ UNCHANGED <<extraction_templates, CacheVars, now, started, ops, probe>>

\* new_page or goto raises
ResolveTemplateFails(c) ==
    /\ chk[c].pc = "resolve"
    /\ Fail(c, "navigate", close(chk[c].open, "1"))
    /\ UNCHANGED <<extraction_templates, CacheVars, now, started, ops, probe>>

\* extraction_template.extract, get_clean_html, the markdown input,
\* page.close, scraper.close: main_hybrid.py:99-121
Extract(c, contents) ==
    /\ chk[c].pc = "extract"
    /\ \E has_content \in contents :
         LET extracted_sections == extract(chk[c].extraction_template, has_content)
             clean_html == get_clean_html(chk[c].extraction_template)
         IN  IF clean_html = AttributeError
               THEN Fail(c, "extract", close(chk[c].open, "1"))
               ELSE chk' = [chk EXCEPT
                        ![c].pc = "text",
                        ![c].stages = Append(@, "Extract"),
                        ![c].extracted_sections = extracted_sections,
                        ![c].llm_input = build_llm_input(extracted_sections,
                                                         clean_html),
                        ![c].open = close(chk[c].open, "1")]
    /\ UNCHANGED <<extraction_templates, CacheVars, now, started, ops, probe>>

\* page.query_selector outside extract's try, page.content, html_to_markdown
\* or page.close raises
ExtractFails(c) ==
    /\ chk[c].pc = "extract"
    /\ Fail(c, "extract", close(chk[c].open, "1"))
    /\ UNCHANGED <<extraction_templates, CacheVars, now, started, ops, probe>>

\* analyzer.analyze_compliance returns text_result
TextAnalyze(c, lists) ==
    /\ chk[c].pc = "text"
    /\ \E violations \in lists, tokens \in TextTokenValues :
         chk' = [chk EXCEPT ![c].pc = "select", ![c].violations = violations,
                            ![c].stages = Append(@, "TextAnalyze"),
                            ![c].text_tokens = tokens]
    /\ UNCHANGED <<extraction_templates, CacheVars, now, started, ops, probe>>

\* the model call raises, its reply is empty or is not JSON
TextAnalyzeFails(c) ==
    /\ chk[c].pc = "text"
    /\ Fail(c, "text", chk[c].open)
    /\ UNCHANGED <<extraction_templates, CacheVars, now, started, ops, probe>>

\* main_hybrid.py:160-183
SelectEscalations(c) ==
    /\ chk[c].pc = "select"
    /\ LET needs_visual == select_escalations(chk[c].violations,
                                              chk[c].skip_visual, chk[c].url_type)
       IN  chk' = [chk EXCEPT ![c].needs_visual = needs_visual,
                              ![c].stages = Append(@, "SelectEscalations"),
                              ![c].pc = IF needs_visual # <<>> THEN "open"
                                        ELSE "aggregate"]
    /\ UNCHANGED <<extraction_templates, CacheVars, now, started, ops, probe>>

\* async with DealershipScraper(); new_page; goto
OpenVisual(c) ==
    /\ chk[c].pc = "open"
    /\ chk' = [chk EXCEPT ![c].pc = "loop", ![c].i = 1,
                          ![c].open = chk[c].open \cup Started("2")]
    /\ UNCHANGED <<extraction_templates, CacheVars, now, started, ops, probe>>

\* __aenter__ raises in start() (then __aexit__ never runs), or new_page or
\* goto raises inside the block (then __aexit__ closes the scraper)
OpenVisualFails(c) ==
    /\ chk[c].pc = "open"
    /\ \E left \in StartLeaves("2") : Fail(c, "open", chk[c].open \cup left)
    /\ UNCHANGED <<extraction_templates, CacheVars, now, started, ops, probe>>

\* ------------------------------------------------ the per-violation loop
CurrentViolation(c) == chk[c].needs_visual[chk[c].i]
CurrentRuleKey(c) == Get(CurrentViolation(c), "rule_key", "")

\* if self.template_manager.should_skip_visual_verification(template_id, rule_key);
\* on False capture_and_verify is invoked at once: main_hybrid.py:192-222
ShouldSkip(c) ==
    /\ chk[c].pc = "loop"
    /\ chk[c].i <= Len(chk[c].needs_visual)
    /\ LET t == chk[c].template_id
           r == CurrentRuleKey(c)
           skip == should_skip_visual_verification(template_rules, t, r,
                                                   confidence_threshold)
           lookup == [i |-> chk[c].i, rule_key |-> r,
                      rows |-> RowsAt(template_rules, t, r),
                      skip |-> skip, ops |-> ops,
                      by |-> IF <<t, r>> \in Keys /\ last_upsert[<<t, r>>] # None
                               THEN last_upsert[<<t, r>>].by ELSE 0 - 1]
       IN  chk' = [chk EXCEPT ![c].lookups = Append(@, lookup),
                              ![c].stages = @ \o (IF skip THEN <<"CacheLookup">>
                                                  ELSE <<"CacheLookup", "Visualize">>),
                              ![c].pc = IF skip THEN "cached" ELSE "verify",
                              ![c].calls = IF skip THEN @ ELSE Append(@, chk[c].i)]
    /\ UNCHANGED <<extraction_templates, CacheVars, now, started, ops, probe>>

\* Mutant: the newest result is put first.
visual_results_prepend(visual_results, entry) == <<entry>> \o visual_results

\* visual_results.append(...): main_hybrid.py:199, 224
visual_results_append(visual_results, entry) == Append(visual_results, entry)

\* Mutant: a hit refreshes verified_date of the row it reads.
ReadCachedRefreshes(c) ==
    /\ chk[c].pc = "cached"
    /\ LET t == chk[c].template_id
           r == CurrentRuleKey(c)
           cached == get_rule_status(template_rules, t, r)
       IN  /\ cached # None
           /\ chk' = [chk EXCEPT
                  ![c].visual_results = Append(@, cached_visual_result(r, cached)),
                  ![c].reads = Append(@, [i |-> chk[c].i, cached |-> cached,
                                          ops |-> ops]),
                  ![c].i = @ + 1,
                  ![c].pc = "loop"]
           /\ template_rules' =
                  { IF row \in RowsAt(template_rules, t, r)
                      THEN [row EXCEPT !.verified_date = now] ELSE row :
                    row \in template_rules }
    /\ UNCHANGED <<extraction_templates, templates, last_upsert, now, started, ops,
                   probe>>

\* cached = get_rule_status(...); visual_results.append({...}): main_hybrid.py:198-209
\* (cached['status'] on None raises TypeError)
ReadCached(c) ==
    /\ chk[c].pc = "cached"
    /\ LET cached == get_rule_status(template_rules, chk[c].template_id,
                                     CurrentRuleKey(c))
       IN  IF cached = None
             THEN Fail(c, "cached", close(chk[c].open, "2"))
             ELSE chk' = [chk EXCEPT
                      ![c].visual_results =
                          visual_results_append(@,
                              cached_visual_result(CurrentRuleKey(c), cached)),
                      ![c].reads = Append(@, [i |-> chk[c].i, cached |-> cached,
                                              ops |-> ops]),
                      ![c].i = @ + 1,
                      ![c].pc = "loop"]
    /\ UNCHANGED <<extraction_templates, CacheVars, now, started, ops, probe>>

\* capture_and_verify returns; the result is appended and the cache upserted:
\* main_hybrid.py:214-236
VerifyReturn(c, outcomes) ==
    /\ chk[c].pc = "verify"
    /\ \E outcome \in outcomes :
         LET t == chk[c].template_id
             r == CurrentRuleKey(c)
             visual_result == fresh_visual_result(outcome)
             d == visual_decision(visual_result)
         IN  /\ chk' = [chk EXCEPT
                   ![c].visual_results = visual_results_append(@, visual_result),
                   ![c].writes = Append(@, [i |-> chk[c].i, rule_key |-> r,
                                            decision |-> d, ops |-> ops]),
                   ![c].stages = Append(@, "CacheUpsert"),
                   ![c].i = @ + 1,
                   ![c].pc = "loop"]
             /\ templates' = update_rule_status_templates(templates, t)
             /\ template_rules' = update_rule_status_rules(template_rules, t, r, d, now)
             /\ last_upsert' = [last_upsert EXCEPT ![<<t, r>>] =
                                  [decision |-> d, by |-> chk[c].serial]]
    /\ UNCHANGED <<extraction_templates, now, started, ops, probe>>

\* the screenshot or the model call raises, or its reply is not JSON
VerifyFails(c) ==
    /\ chk[c].pc = "verify"
    /\ Fail(c, "verify", close(chk[c].open, "2"))
    /\ UNCHANGED <<extraction_templates, CacheVars, now, started, ops, probe>>

\* capture_and_verify returns but update_rule_status raises (sqlite3 error)
UpsertFails(c, outcomes) ==
    /\ chk[c].pc = "verify"
    /\ \E outcome \in outcomes :
         chk' = [chk EXCEPT
                   ![c].visual_results =
                       visual_results_append(@, fresh_visual_result(outcome)),
                   ![c].pc = "failed", ![c].error = "upsert",
                   ![c].stages = Append(@, "CacheUpsert"),
                   ![c].open = close(chk[c].open, "2")]
    /\ UNCHANGED <<extraction_templates, CacheVars, now, started, ops, probe>>

\* Mutant: after the loop the violations are selected again.
CloseVisualSelectsAgain(c) ==
    /\ chk[c].pc = "loop"
    /\ chk[c].i > Len(chk[c].needs_visual)
    /\ chk' = [chk EXCEPT ![c].pc = "select",
                          ![c].open = close(chk[c].open, "2")]
    /\ UNCHANGED <<extraction_templates, CacheVars, now, started, ops, probe>>

\* the for loop ends; page.close(); the scraper context exits
CloseVisual(c) ==
    /\ chk[c].pc = "loop"
    /\ chk[c].i > Len(chk[c].needs_visual)
    /\ chk' = [chk EXCEPT ![c].pc = "aggregate",
                          ![c].open = close(chk[c].open, "2")]
    /\ UNCHANGED <<extraction_templates, CacheVars, now, started, ops, probe>>

CloseVisualFails(c) ==
    /\ chk[c].pc = "loop"
    /\ chk[c].i > Len(chk[c].needs_visual)
    /\ Fail(c, "close", close(chk[c].open, "2"))
    /\ UNCHANGED <<extraction_templates, CacheVars, now, started, ops, probe>>

\* sum(v.get('tokens_used', 0) for v in visual_results)
RECURSIVE SumTokens(_)
SumTokens(visual_results) ==
    IF visual_results = <<>> THEN 0
    ELSE Get(Head(visual_results), "tokens_used", 0) + SumTokens(Tail(visual_results))

\* Mutant: the total leaves the visual tokens out.
aggregate_text_total(ck) ==
    [violations |-> ck.violations,
     visual_verifications |-> ck.visual_results,
     template_id |-> ck.template_id,
     text_analysis_tokens |-> ck.text_tokens,
     visual_tokens |-> SumTokens(ck.visual_results),
     total_tokens |-> ck.text_tokens]

\* main_hybrid.py:246-273
aggregate(ck) ==
    [violations |-> ck.violations,
     visual_verifications |-> ck.visual_results,
     template_id |-> ck.template_id,
     text_analysis_tokens |-> ck.text_tokens,
     visual_tokens |-> SumTokens(ck.visual_results),
     total_tokens |-> ck.text_tokens + SumTokens(ck.visual_results)]

Aggregate(c) ==
    /\ chk[c].pc = "aggregate"
    /\ chk' = [chk EXCEPT ![c].result = aggregate(chk[c]), ![c].pc = "done",
                          ![c].stages = Append(@, "Aggregate")]
    /\ UNCHANGED <<extraction_templates, CacheVars, now, started, ops, probe>>

\* Mutant: a failing run takes back the rows it upserted.
AggregateFailsRollback(c) ==
    /\ chk[c].pc = "aggregate"
    /\ Fail(c, "report", chk[c].open)
    /\ template_rules' =
           { row \in template_rules :
               ~(/\ row.template_id = chk[c].template_id
                 /\ \E k \in 1..Len(chk[c].writes) :
                        chk[c].writes[k].rule_key = row.rule_key) }
    /\ last_upsert' =
           [key \in Keys |->
               IF /\ key[1] = chk[c].template_id
                  /\ \E k \in 1..Len(chk[c].writes) :
                         chk[c].writes[k].rule_key = key[2]
                 THEN None ELSE last_upsert[key]]
    /\ UNCHANGED <<extraction_templates, templates, now, started, ops, probe>>

\* reporter.save_report raises
AggregateFails(c) ==
    /\ chk[c].pc = "aggregate"
    /\ Fail(c, "report", chk[c].open)
    /\ UNCHANGED <<extraction_templates, CacheVars, now, started, ops, probe>>

\* ------------------------------------------------------- operator routes
\* PUT /{template_id}/rules/{rule_key}: templates.py:103-137
update_template_rule(tids, decisions, limit) ==
    /\ ops < limit
    /\ \E t \in tids, r \in RuleKeys, d \in decisions :
         /\ templates' = IF get_template_row(templates, t) = None
                           THEN save_template(templates, t, "custom")
                           ELSE templates
         /\ template_rules' = save_template_rule(template_rules, t, r, d, now)
         /\ last_upsert' = [last_upsert EXCEPT ![<<t, r>>] =
                              [decision |-> d, by |-> 0]]
    /\ ops' = ops + 1
    /\ UNCHANGED <<extraction_templates, now, chk, started, probe>>

\* DELETE /{template_id}/rules/{rule_key}: templates.py:140-164 (404 when absent)
delete_template_rule(tids, limit) ==
    /\ ops < limit
    /\ \E t \in tids, r \in RuleKeys :
         /\ get_template_rule(template_rules, t, r) # None
         /\ template_rules' = delete_rule(template_rules, t, r)
         /\ last_upsert' = [last_upsert EXCEPT ![<<t, r>>] = None]
    /\ ops' = ops + 1
    /\ UNCHANGED <<extraction_templates, templates, now, chk, started, probe>>

\* time passes
Tick ==
    /\ now < MaxClock
    /\ now' = now + 1
    /\ UNCHANGED <<extraction_templates, CacheVars, chk, started, ops, probe>>

\* a direct call of should_skip_visual_verification with an explicit or the
\* default threshold (as in template_manager.py main())
Thresholds == {50, confidence_threshold, 100}

SkipProbe(tids) ==
    /\ \E t \in tids, r \in RuleKeys, threshold \in Thresholds :
         probe' = [fn |-> "should_skip_visual_verification",
                   template_id |-> t, rule |-> r,
                   confidence_threshold |-> threshold,
                   rows |-> RowsAt(template_rules, t, r),
                   result |-> should_skip_visual_verification(template_rules, t, r,
                                                              threshold)]
    /\ UNCHANGED <<extraction_templates, CacheVars, now, chk, started, ops>>

\* a direct call of get_template, as in extraction_templates.py main()
Netlocs == {"www.a.com", "b.com"}
Platforms == {"", "unknown", "dealer.com", "DealerOn"}
Overrides == {"", "custom_x", "custom_y"}
ResolveUrlTypes == {"HOMEPAGE", "OTHER"}

GetTemplateProbe ==
    /\ \E netloc \in Netlocs, platform \in Platforms,
          template_override \in Overrides, url_type \in ResolveUrlTypes :
         probe' = [fn |-> "get_template", url |-> netloc, platform |-> platform,
                   template_override |-> template_override, url_type |-> url_type,
                   store |-> extraction_templates,
                   result |-> get_template(extraction_templates, netloc, platform,
                                           template_override, url_type)]
    /\ UNCHANGED <<extraction_templates, CacheVars, now, chk, started, ops>>

\* create_url_override(url, selectors): extraction_templates.py:455-482
\* (cleanup_rules or {} is stored as NULL)
create_url_override ==
    /\ \E netloc \in Netlocs :
         extraction_templates' =
             save_extraction_template(extraction_templates,
                 [template_id |-> url_template_id(netloc), platform |-> "custom",
                  selectors |-> { <<"price", ".price">> },
                  cleanup_rules |-> None,
                  extraction_order |-> << "price" >>,
                  created_at |-> 0])
    /\ extraction_templates' # extraction_templates
    /\ UNCHANGED <<CacheVars, now, chk, started, ops, probe>>

\* _save_template of each template of rows in turn (their ids differ, so the
\* order of the saves does not show)
RECURSIVE save_templates(_, _, _)
save_templates(store, rows, ts) ==
    IF rows = {} THEN store
    ELSE LET row == CHOOSE r \in rows : TRUE
         IN  save_templates(
                 save_extraction_template(store, [row EXCEPT !.created_at = ts]),
                 rows \ {row}, ts)

\* Mutant: the built-in templates are saved only where their id is not stored.
_load_default_templates_if_absent(store, ts) ==
    save_templates(store,
                   { d \in DefaultTemplates :
                       get_extraction_template(store, d.template_id) = None },
                   ts)

\* _load_default_templates: extraction_templates.py:118-359
_load_default_templates(store, ts) == save_templates(store, DefaultTemplates, ts)

\* ExtractionTemplateManager(): extraction_templates.py:106-116
ExtractionTemplateManager_init ==
    /\ extraction_templates' =
           _load_default_templates(extraction_templates, now)
    /\ probe' = [fn |-> "ExtractionTemplateManager",
                 before |-> extraction_templates,
                 store |-> extraction_templates']
    /\ UNCHANGED <<CacheVars, now, chk, started, ops>>

\* the extraction template files migrate_to_db.py loads: templates of their
\* own under built-in ids and under other ids
MigratedTemplates ==
    { [template_id |-> "vdp_default", platform |-> "vdp",
       selectors |-> { <<"price", ".migrated-price">> },
       cleanup_rules |-> [remove_selectors |-> {"migrated_noise"}],
       extraction_order |-> << "price" >>, created_at |-> 0],
      [template_id |-> "dealer.com_vdp", platform |-> "dealer.com",
       selectors |-> { <<"price", ".migrated-price">> },
       cleanup_rules |-> None,
       extraction_order |-> << "price" >>, created_at |-> 0],
      [template_id |-> "custom_x", platform |-> "custom",
       selectors |-> { <<"price", ".migrated-price">> },
       cleanup_rules |-> None,
       extraction_order |-> << "price" >>, created_at |-> 0] }

\* migrate_extraction_templates: db.save_extraction_template of a file's config
migrate_extraction_template ==
    /\ \E config \in MigratedTemplates :
         extraction_templates' =
             save_extraction_template(extraction_templates,
                                      [config EXCEPT !.created_at = now])
    /\ extraction_templates' # extraction_templates
    /\ UNCHANGED <<CacheVars, now, chk, started, ops, probe>>

\* ------------------------------------------------------- specifications
\* pages on which the template's selectors find text, and all pages
PipelineContents == {TRUE}
Contents == BOOLEAN

CheckStep(c, pages, urlTypes, lists) ==
    \/ StartCheck(c, pages, urlTypes) \/ StartCheckFails(c, pages, urlTypes)
    \/ Fetch(c) \/ FetchFails(c)
    \/ ResolveTemplate(c) \/ ResolveTemplateFails(c)
    \/ Extract(c, PipelineContents) \/ ExtractFails(c)
    \/ TextAnalyze(c, lists) \/ TextAnalyzeFails(c)
    \/ SelectEscalations(c)
    \/ OpenVisual(c) \/ OpenVisualFails(c)
    \/ ShouldSkip(c)
    \/ ReadCached(c)
    \/ VerifyReturn(c, VisualOutcomes) \/ VerifyFails(c)
    \/ UpsertFails(c, VisualOutcomes)
    \/ CloseVisual(c) \/ CloseVisualFails(c)
    \/ Aggregate(c) \/ AggregateFails(c)

\* The pipeline: check_url runs one after the other, with operator requests
\* interleaved at every step.
Next ==
    \/ \E c \in Checks : CheckStep(c, PipelinePages, UrlTypes, ViolationLists)
    \/ update_template_rule(PipelineTemplateIds, OperatorDecisions, MaxOperatorOps)
    \/ delete_template_rule(PipelineTemplateIds, MaxOperatorOps)

Spec == Init /\ [][Next]_vars

\* Concurrent checks of pages of the same template, operator requests and the
\* clock, all sharing the cache.
ConcUrlTypes == {"VDP"}
ConcLists == { <<>>, <<Violation("r1", 60, TRUE)>> }

NextConc ==
    \/ \E c \in Checks : CheckStep(c, PipelinePages, ConcUrlTypes, ConcLists)
    \/ update_template_rule(PipelineTemplateIds, OperatorDecisions, MaxOperatorOps)
    \/ delete_template_rule(PipelineTemplateIds, MaxOperatorOps)
    \/ Tick

SpecConc == InitConc /\ [][NextConc]_vars

\* Escalation selection on the richer violation lists: a check up to
\* SelectEscalations.
SelectUrlTypes == {"VDP", "HOMEPAGE", "homepage"}

NextSelect ==
    \E c \in Checks :
        \/ StartCheck(c, PipelinePages, SelectUrlTypes)
        \/ Fetch(c)
        \/ ResolveTemplate(c)
        \/ Extract(c, PipelineContents)
        \/ TextAnalyze(c, SelectLists)
        \/ SelectEscalations(c)

SpecSelect == Init /\ [][NextSelect]_vars

\* should_skip_visual_verification called directly on caches the operator
\* route fills with decisions of every status, method and confidence.
SkipDecisions ==
    { Decision(st, cf, m, "") : st \in {"compliant", "non_compliant", "uncertain"},
                                cf \in {49, 50, 84, 85, 100},
                                m \in {"visual", "human"} }

NextSkip ==
    \/ update_template_rule(PipelineTemplateIds, SkipDecisions, MaxSkipOps)
    \/ delete_template_rule(PipelineTemplateIds, MaxSkipOps)
    \/ SkipProbe(PipelineTemplateIds)

SpecSkip == Init /\ [][NextSkip]_vars

\* Template resolution on stores holding any of the templates the tiers can
\* name (the table is persistent and shared): by direct calls, and by checks
\* up to the extraction stage.
StoredTemplates ==
    { TemplateRow("custom_x", "custom"),
      TemplateRow("url_a_com", "custom"),
      TemplateRow("homepage_default", "homepage"),
      TemplateRow("dealer.com_vdp", "dealer.com"),
      TemplateRow("unknown_vdp", "unknown"),
      TemplateRow("generic_fallback", "unknown") }

InitResolve ==
    /\ extraction_templates \in SUBSET StoredTemplates
    /\ InitCache({1})

NextResolve ==
    \/ GetTemplateProbe
    \/ create_url_override

SpecResolve == InitResolve /\ [][NextResolve]_vars

NextResolveCheck ==
    \E c \in Checks :
        \/ StartCheck(c, Pages, UrlTypes)
        \/ Fetch(c)
        \/ ResolveTemplate(c)
        \/ ResolveTemplateFails(c)

SpecResolveCheck == InitResolve /\ [][NextResolveCheck]_vars

\* Pages of two dealerships on the same platform, of one whose platform is
\* recognised from its HTML only, and of one on no known platform.
KeyPages ==
    Pages \cup { [domain |-> "c.com", platform |-> "dealer.com", html |-> {}],
                 [domain |-> "d.com", platform |-> "unknown",
                  html |-> {"dealer.com"}] }

\* The extraction stage on pages with and without text under the template's
\* selectors: a check up to TextAnalyze.
NextExtract ==
    \E c \in Checks :
        \/ StartCheck(c, KeyPages, UrlTypes)
        \/ Fetch(c)
        \/ ResolveTemplate(c)
        \/ Extract(c, Contents)
        \/ ExtractFails(c)

SpecExtract == Init /\ [][NextExtract]_vars

\* Checks of the same and of different dealerships and page types sharing the
\* cache: every stage, no operator.
KeyLists == { <<Violation("r1", 60, TRUE)>> }
KeyOutcomes == { o \in VisualOutcomes : o.is_compliant }

NextKey ==
    \E c \in Checks :
        \/ StartCheck(c, KeyPages, UrlTypes)
        \/ Fetch(c)
        \/ ResolveTemplate(c)
        \/ Extract(c, PipelineContents)
        \/ TextAnalyze(c, KeyLists)
        \/ SelectEscalations(c)
        \/ OpenVisual(c)
        \/ ShouldSkip(c)
        \/ ReadCached(c)
        \/ VerifyReturn(c, KeyOutcomes)
        \/ CloseVisual(c)
        \/ Aggregate(c)

SpecKey == InitConc /\ [][NextKey]_vars

\* The extraction_templates table of a new database under migration, URL
\* overrides and the construction of managers, as time passes.
InitSeed ==
    /\ extraction_templates = {}
    /\ InitCache({1})

NextSeed ==
    \/ ExtractionTemplateManager_init
    \/ migrate_extraction_template
    \/ create_url_override
    \/ Tick

SpecSeed == InitSeed /\ [][NextSeed]_vars

\* =============================================================== claims
Range(seq) == { seq[k] : k \in 1..Len(seq) }

\* the lookup found a decision of confidence >= 0.85 in the cache
Held(lookup) == \E row \in lookup.rows : row.confidence >= confidence_threshold

\* rule keys of the violations handed to capture_and_verify by check c
VerifiedKeys(c) ==
    { Get(chk[c].needs_visual[k], "rule_key", "") : k \in Range(chk[c].calls) }

\* C1, per escalated violation: whenever the cache holds a decision of confidence >= 0.85
\* for (templateId, ruleKey) at the lookup of an escalated violation,
\* should_skip_visual_verification returns true and capture_and_verify is not
\* invoked for that violation.
C1_CachedViolationNotVerified ==
    \A c \in Checks : \A j \in 1..Len(chk[c].lookups) :
        LET lookup == chk[c].lookups[j]
        IN  Held(lookup) => lookup.skip /\ lookup.i \notin Range(chk[c].calls)

\* C1 witness: a completed check whose lookup found a decision of confidence
\* >= 0.85 and served the violation from the cache.
C1_Witness ==
    \E c \in Checks :
        /\ chk[c].pc = "done"
        /\ \E j \in 1..Len(chk[c].lookups) :
             Held(chk[c].lookups[j]) /\ chk[c].lookups[j].skip

\* C1 as stated: ... and capture_and_verify is never invoked for that
\* (templateId, ruleKey) pair during that check.
C1_PairNeverVerified ==
    \A c \in Checks : \A j \in 1..Len(chk[c].lookups) :
        LET lookup == chk[c].lookups[j]
        IN  Held(lookup) => lookup.skip /\ lookup.rule_key \notin VerifiedKeys(c)

\* the decision the claims expect in the cache after a fresh verification
ExpectedDecision(visual_result) ==
    [status |-> IF visual_result.is_compliant THEN "compliant" ELSE "non_compliant",
     confidence |-> visual_result.confidence,
     verification_method |-> "visual",
     notes |-> visual_result.visual_evidence]

\* the lookup read a decision that an earlier check wrote and nobody touched since
FromEarlierCheck(c, lookup) == lookup.by >= 1 /\ lookup.by < chk[c].serial

\* C2, with the confidence condition: with no cache entry for (T, R) at the lookup of an escalated
\* violation, the check hands that violation to the Visual Verifier (once) and,
\* when the call returns and the upsert succeeds, the cache holds its outcome at
\* (T, R); a later check that looks up a decision written by an earlier check
\* and untouched since skips the Visual Verifier exactly when that decision's
\* confidence is >= 0.85, and calls it again otherwise.
C2_MissVerifiesAndCaches ==
    \A c \in Checks :
      LET ck == chk[c] IN
      /\ \A j \in 1..Len(ck.lookups) :
           ck.lookups[j].rows = {} =>
             /\ ~ck.lookups[j].skip
             /\ Cardinality({ k \in 1..Len(ck.calls) : ck.calls[k] = ck.lookups[j].i }) = 1
      /\ \A k \in Range(ck.calls) :
           k < ck.i => \E w \in Range(ck.writes) : w.i = k
      /\ \A j \in 1..Len(ck.writes) :
           LET w == ck.writes[j] IN
           /\ w.decision = ExpectedDecision(ck.visual_results[w.i])
           /\ ( /\ w.ops = ops
                /\ \A k \in (j+1)..Len(ck.writes) : ck.writes[k].rule_key # w.rule_key )
              => { DecisionOf(row) :
                     row \in RowsAt(template_rules, ck.template_id, w.rule_key) }
                   = { w.decision }
      /\ \A j \in 1..Len(ck.lookups) :
           LET lookup == ck.lookups[j] IN
           FromEarlierCheck(c, lookup) =>
             /\ lookup.skip <=> Held(lookup)
             /\ (lookup.i \in Range(ck.calls)) <=> ~Held(lookup)

\* C2 witness: a second check is served from the cache by the decision that
\* the first check's Visual Verifier call wrote after its own lookup missed.
C2_Witness ==
    \E c \in Checks :
        /\ chk[c].serial = 2
        /\ \E j \in 1..Len(chk[c].lookups) :
             /\ chk[c].lookups[j].by = 1
             /\ chk[c].lookups[j].skip
             /\ chk[c].lookups[j].i \notin Range(chk[c].calls)

\* C2 as stated: a violation whose lookup missed is verified exactly once,
\* and a later check that finds the decision an earlier check wrote (untouched
\* since) makes no Visual Verifier call.
C2_SecondCheckNeverVerifies ==
    \A c \in Checks :
      LET ck == chk[c] IN
      /\ \A j \in 1..Len(ck.lookups) :
           ck.lookups[j].rows = {} =>
             Cardinality({ k \in 1..Len(ck.calls) : ck.calls[k] = ck.lookups[j].i }) = 1
      /\ \A j \in 1..Len(ck.lookups) :
           FromEarlierCheck(c, ck.lookups[j]) =>
             ck.lookups[j].skip /\ ck.lookups[j].i \notin Range(ck.calls)

\* C3: in a completed check, every escalated violation whose lookup found a
\* decision of confidence >= 0.85 has, at its position in the result's
\* visual-verification list, an entry with its rule key, cached = true, method
\* 'cached', isCompliant = (cached status is 'compliant') and the cached
\* confidence; the cached decision is the one get_rule_status read, which is
\* the one of the lookup unless an operator request came in between.
C3_CachedEntryInResult ==
    \A c \in Checks :
      chk[c].pc = "done" =>
        \A j \in 1..Len(chk[c].lookups) :
          LET lookup == chk[c].lookups[j] IN
          Held(lookup) =>
            /\ lookup.i <= Len(chk[c].result.visual_verifications)
            /\ \E rd \in Range(chk[c].reads) :
                 LET entry == chk[c].result.visual_verifications[lookup.i] IN
                 /\ rd.i = lookup.i
                 /\ DOMAIN entry = {"rule_key", "cached", "is_compliant",
                                    "confidence", "verification_method", "notes"}
                 /\ entry.rule_key = lookup.rule_key
                 /\ entry.rule_key = chk[c].needs_visual[lookup.i].rule_key
                 /\ entry.cached = TRUE
                 /\ entry.verification_method = "cached"
                 /\ entry.is_compliant = (rd.cached.status = "compliant")
                 /\ entry.confidence = rd.cached.confidence
                 /\ rd.ops = lookup.ops =>
                      \E row \in lookup.rows :
                        /\ row.status = rd.cached.status
                        /\ row.confidence = rd.cached.confidence

\* C3 witness: the end-to-end scenario; a completed check with a compliant
\* decision of confidence >= 0.85 cached for an escalated rule key.
C3_Witness ==
    \E c \in Checks :
        /\ chk[c].pc = "done"
        /\ \E j \in 1..Len(chk[c].lookups) :
             /\ Held(chk[c].lookups[j])
             /\ \E row \in chk[c].lookups[j].rows : row.status = "compliant"
             /\ chk[c].result.visual_verifications[chk[c].lookups[j].i].is_compliant

\* some step upserted B at key <<t, r>>
UpsertedAt(t, r) ==
    /\ last_upsert'[<<t, r>>] # None
    /\ \/ last_upsert'[<<t, r>>] # last_upsert[<<t, r>>]
       \/ \E c \in Checks : /\ Len(chk'[c].writes) = Len(chk[c].writes) + 1
                            /\ chk'[c].template_id = t
                            /\ chk'[c].writes[Len(chk'[c].writes)].rule_key = r

OtherRows(rules, t, r) == rules \ RowsAt(rules, t, r)

\* C4: an upsert of decision B at a key that already holds the decision A of
\* an earlier upsert leaves exactly one row for that key, with B's status,
\* confidence, method and notes, and leaves the rows of all other keys unchanged.
C4_UpsertOverwrites ==
    [][ \A t \in TemplateIds, r \in RuleKeys :
          (last_upsert[<<t, r>>] # None /\ UpsertedAt(t, r)) =>
            /\ Cardinality(RowsAt(template_rules', t, r)) = 1
            /\ \A row \in RowsAt(template_rules', t, r) :
                 DecisionOf(row) = last_upsert'[<<t, r>>].decision
            /\ OtherRows(template_rules', t, r) = OtherRows(template_rules, t, r)
      ]_vars

\* C4 witness: an operator's decision B has replaced the differing decision A
\* that a check wrote for the same key, while another key holds a row.
C4_Witness ==
    \E c \in Checks : \E w \in Range(chk[c].writes) :
        LET k == <<chk[c].template_id, w.rule_key>> IN
        /\ last_upsert[k] # None
        /\ last_upsert[k].by = 0
        /\ last_upsert[k].decision.status # w.decision.status
        /\ last_upsert[k].decision.confidence # w.decision.confidence
        /\ { DecisionOf(row) : row \in RowsAt(template_rules, k[1], k[2]) }
             = { last_upsert[k].decision }
        /\ OtherRows(template_rules, k[1], k[2]) # {}

\* C5: in every reachable state of concurrent checks and operator requests the
\* cache holds at most one row per (templateId, ruleKey), and that row carries
\* in all its fields the arguments of the last upsert executed on the key (none
\* when the key was deleted since or never written).
C5_OneRowLastWriteWins ==
    \A k \in Keys :
        /\ Cardinality(RowsAt(template_rules, k[1], k[2])) <= 1
        /\ last_upsert[k] = None => RowsAt(template_rules, k[1], k[2]) = {}
        /\ last_upsert[k] # None =>
             { DecisionOf(row) : row \in RowsAt(template_rules, k[1], k[2]) }
               = { last_upsert[k].decision }

\* C5 witness: two checks both missed the same key before either wrote, then
\* both upserted it, with different decisions.
C5_Witness ==
    /\ DOMAIN chk = {1, 2}
    /\ \E w1 \in Range(chk[1].writes), w2 \in Range(chk[2].writes) :
         /\ chk[1].template_id = chk[2].template_id
         /\ w1.rule_key = w2.rule_key
         /\ w1.decision.status # w2.decision.status
         /\ w1.decision.confidence # w2.decision.confidence
         /\ \E l1 \in Range(chk[1].lookups), l2 \in Range(chk[2].lookups) :
              /\ l1.i = w1.i /\ l2.i = w2.i
              /\ l1.rows = {} /\ l2.rows = {}
         /\ Cardinality(RowsAt(template_rules, chk[1].template_id, w1.rule_key)) = 1

\* C6: should_skip_visual_verification(templateId, ruleKey, threshold) returns
\* true exactly when a row exists for the key and its confidence >= threshold,
\* whatever its status and verification method.
C6_ShouldSkipIff ==
    probe.fn = "should_skip_visual_verification" =>
        probe.result = (\E row \in probe.rows : row.confidence >= probe.confidence_threshold)

\* C6 witness: the call returned true at the boundary (confidence = threshold =
\* 0.85) for a decision that is not 'compliant' and not 'visual'.
C6_Witness ==
    /\ probe.fn = "should_skip_visual_verification"
    /\ probe.result = TRUE
    /\ probe.confidence_threshold = confidence_threshold
    /\ \E row \in probe.rows : /\ row.confidence = probe.confidence_threshold
                               /\ row.status = "non_compliant"
                               /\ row.verification_method = "human"

\* the check has passed SelectEscalations
Selected(c) == chk[c].pc \in {"open", "loop", "cached", "verify", "aggregate", "done"}
           \/ (chk[c].pc = "failed" /\ chk[c].lookups # <<>>)

\* a violation that the default rule escalates: flag true and confidence < 0.85
Qualifies(v) ==
    /\ "needs_visual_verification" \in DOMAIN v
    /\ v.needs_visual_verification = TRUE
    /\ "confidence" \in DOMAIN v
    /\ v.confidence < EscalationThreshold

QualifyingIndices(violations) ==
    { k \in 1..Len(violations) : Qualifies(violations[k]) }

\* the n-th smallest element of a set of indices
NthIndex(idx, n) == CHOOSE k \in idx : Cardinality({ m \in idx : m <= k }) = n

\* res lists exactly the qualifying violations of src, in src's order
IsDefaultEscalation(res, src) ==
    /\ Len(res) = Cardinality(QualifyingIndices(src))
    /\ \A n \in 1..Len(res) : res[n] = src[NthIndex(QualifyingIndices(src), n)]

\* C7: when the visual stage runs, the escalation list is exactly the
\* violations with needsVisualVerification = true and confidence < 0.85, in
\* their original order (for a homepage with none of them, the synthetic check
\* alone); a violation with confidence >= 0.85, or without the flag, is never in it.
C7_DefaultEscalation ==
    \A c \in Checks :
      (Selected(c) /\ (~chk[c].skip_visual \/ Upper(chk[c].url_type) = "HOMEPAGE")) =>
        /\ \/ IsDefaultEscalation(chk[c].needs_visual, chk[c].violations)
           \/ /\ QualifyingIndices(chk[c].violations) = {}
              /\ Upper(chk[c].url_type) = "HOMEPAGE"
              /\ chk[c].needs_visual = <<SyntheticViolation>>
        /\ \A k \in 1..Len(chk[c].violations) :
             LET v == chk[c].violations[k] IN
             (Get(v, "confidence", 0) >= EscalationThreshold
                \/ ~Get(v, "needs_visual_verification", TRUE)) =>
               v \notin Range(chk[c].needs_visual)

\* C7 witness: the spec's scenario; of the violations (0.60 flagged, 0.95
\* flagged, 0.30 not flagged) only the first is escalated.
C7_Witness ==
    \E c \in Checks :
        /\ Selected(c)
        /\ chk[c].violations = << Violation("r1", 60, TRUE), Violation("r1", 95, TRUE),
                                  Violation("r1", 30, FALSE) >>
        /\ chk[c].needs_visual = << Violation("r1", 60, TRUE) >>

\* C8: for urlType HOMEPAGE and a text result with no violation flagged
\* needsVisualVerification, the escalation list is not empty and contains the
\* synthetic contact-visibility check.
C8_HomepageForcedEscalation ==
    \A c \in Checks :
      ( /\ Selected(c)
        /\ Upper(chk[c].url_type) = "HOMEPAGE"
        /\ \A v \in Range(chk[c].violations) :
             ~Get(v, "needs_visual_verification", FALSE) ) =>
        /\ chk[c].needs_visual # <<>>
        /\ \E v \in Range(chk[c].needs_visual) :
             "rule_key" \in DOMAIN v /\ v.rule_key = HomepageRuleKey

\* C8 witness: a homepage check with skip_visual set and violations none of
\* which is flagged has the synthetic check as its escalation list.
C8_Witness ==
    \E c \in Checks :
        /\ Selected(c)
        /\ chk[c].url_type = "HOMEPAGE"
        /\ chk[c].skip_visual
        /\ chk[c].violations # <<>>
        /\ \A v \in Range(chk[c].violations) :
             ~Get(v, "needs_visual_verification", FALSE)
        /\ chk[c].needs_visual = <<SyntheticViolation>>

\* C9 as stated: for every HOMEPAGE check the synthetic contact-visibility
\* check is among the escalated items, and a completed check's result has a
\* visual verification entry at its position.
C9_HomepageAlwaysSynthetic ==
    \A c \in Checks :
      (Selected(c) /\ Upper(chk[c].url_type) = "HOMEPAGE") =>
        \E k \in 1..Len(chk[c].needs_visual) :
          /\ Get(chk[c].needs_visual[k], "rule_key", "") = HomepageRuleKey
          /\ chk[c].pc = "done" => k <= Len(chk[c].result.visual_verifications)

\* C10: a check with skipVisual = true and a urlType other than HOMEPAGE makes
\* no cache lookup, no Visual Verifier call and no cache write, and its result
\* has an empty visual-verification list.
C10_SkipVisualTextOnly ==
    \A c \in Checks :
      (chk[c].skip_visual /\ Upper(chk[c].url_type) # "HOMEPAGE") =>
        /\ chk[c].lookups = <<>>
        /\ chk[c].reads = <<>>
        /\ chk[c].calls = <<>>
        /\ chk[c].writes = <<>>
        /\ chk[c].pc \notin {"open", "loop", "cached", "verify"}
        /\ chk[c].pc = "done" => chk[c].result.visual_verifications = <<>>

\* C10 witness: a completed non-homepage check with skip_visual set whose text
\* result has a violation the default rule would escalate.
C10_Witness ==
    \E c \in Checks :
        /\ chk[c].pc = "done"
        /\ chk[c].skip_visual
        /\ chk[c].url_type = "VDP"
        /\ QualifyingIndices(chk[c].violations) # {}
        /\ chk[c].result.visual_verifications = <<>>

TierIds(call) ==
    << call.template_override,
       "url_" \o DotsToUnderscores(NormalizeDomain(call.url)),
       IF call.url_type = "" THEN "" ELSE Lower(call.url_type) \o "_default",
       IF call.platform \in {"", "unknown"} THEN ""
         ELSE Lower(call.platform) \o "_vdp",
       "generic_fallback" >>

Stored(store, template_id) ==
    template_id # "" /\ \E row \in store : row.template_id = template_id

\* the template as stored: the row's five template columns
StoredTemplate(store, template_id) ==
    LET row == CHOOSE row \in store : row.template_id = template_id
    IN  [template_id |-> row.template_id, platform |-> row.platform,
         selectors |-> row.selectors, cleanup_rules |-> row.cleanup_rules,
         extraction_order |-> row.extraction_order]

\* C12: get_template returns the stored template of the first tier, in the
\* order explicit override, per-URL override of the normalized domain,
\* <urlType>_default, <platform>_vdp, generic_fallback, whose template is in
\* the store; absent tiers (an override id not in the store included) are
\* skipped and the result is exactly that stored template.
C12_FirstStoredTierWins ==
    probe.fn = "get_template" =>
      \A k \in 1..5 :
        ( /\ Stored(probe.store, TierIds(probe)[k])
          /\ \A j \in 1..(k - 1) : ~Stored(probe.store, TierIds(probe)[j]) ) =>
          probe.result = StoredTemplate(probe.store, TierIds(probe)[k])

\* C12 witness: an override id that is not in the store and no per-URL
\* override; the page-type default wins over the platform default and the
\* generic fallback, both stored.
C12_Witness ==
    /\ probe.fn = "get_template"
    /\ probe.template_override = "custom_y"
    /\ probe.url = "www.a.com"
    /\ probe.url_type = "HOMEPAGE"
    /\ probe.platform = "dealer.com"
    /\ ~Stored(probe.store, "url_a_com")
    /\ Stored(probe.store, "homepage_default")
    /\ Stored(probe.store, "dealer.com_vdp")
    /\ Stored(probe.store, "generic_fallback")
    /\ probe.result = StoredTemplate(probe.store, "homepage_default")

\* the tiers of the get_template call a check makes
CheckCall(c) ==
    [url |-> chk[c].page.domain, platform |-> chk[c].page.platform,
     template_override |-> "", url_type |-> chk[c].url_type]

NoTierStored(store, call) == \A k \in 1..5 : ~Stored(store, TierIds(call)[k])

\* C13: with generic_fallback absent and no higher tier stored, get_template
\* raises instead of returning a template, and a check that calls it ends in
\* Failed without a result.
C13_MissingFallbackFails ==
    \A c \in Checks :
      (chk[c].pc # "idle" /\ NoTierStored(extraction_templates, CheckCall(c))) =>
        /\ get_template(extraction_templates, chk[c].page.domain,
                        chk[c].page.platform, "", chk[c].url_type) = AttributeError
        /\ chk[c].pc \in {"fetch", "resolve", "failed"}
        /\ chk[c].extraction_template = None
        /\ chk[c].result = None

\* C13 witness: a check that failed in get_template on a store without
\* generic_fallback.
C13_Witness ==
    \E c \in Checks :
        /\ chk[c].pc = "failed"
        /\ chk[c].error = "get_template"
        /\ ~Stored(extraction_templates, "generic_fallback")
        /\ extraction_templates # {}

\* tokens a visual verification entry accounts for: entries copied from the
\* cache count 0
EntryTokens(entry) ==
    IF "cached" \in DOMAIN entry THEN 0
    ELSE IF "tokens_used" \in DOMAIN entry THEN entry.tokens_used ELSE 0

RECURSIVE TokenSum(_)
TokenSum(entries) ==
    IF entries = <<>> THEN 0
    ELSE EntryTokens(entries[Len(entries)]) + TokenSum(SubSeq(entries, 1, Len(entries) - 1))

\* C14: in every completed check total_tokens = text_analysis_tokens +
\* visual_tokens, visual_tokens being the sum of tokens_used over the result's
\* visual verifications (cached entries count 0); without visual verifications
\* total_tokens is the text tokens.
C14_TokenAccounting ==
    \A c \in Checks :
      chk[c].pc = "done" =>
        LET res == chk[c].result IN
        /\ res.text_analysis_tokens = chk[c].text_tokens
        /\ res.visual_tokens = TokenSum(res.visual_verifications)
        /\ res.total_tokens = res.text_analysis_tokens + res.visual_tokens
        /\ res.visual_verifications = <<>> => res.total_tokens = chk[c].text_tokens

\* C14 witness: a completed check with one cached and one fresh visual
\* verification.
C14_Witness ==
    \E c \in Checks :
        /\ chk[c].pc = "done"
        /\ Len(chk[c].result.visual_verifications) = 2
        /\ "cached" \in DOMAIN chk[c].result.visual_verifications[1]
        /\ "cached" \notin DOMAIN chk[c].result.visual_verifications[2]
        /\ chk[c].result.visual_tokens > 0
        /\ chk[c].result.total_tokens > chk[c].text_tokens

\* the stages before Aggregate
StagesBeforeAggregate ==
    {"start", "fetch", "navigate", "get_template", "extract", "text", "open",
     "cached", "verify", "upsert", "close"}

\* C15: a failure in any stage before Aggregate makes check_url raise: the
\* check is Failed and has no result; a completed check had no failing stage.
C15_StageFailureFailsCheck ==
    \A c \in Checks :
      /\ chk[c].error \in StagesBeforeAggregate =>
           chk[c].pc = "failed" /\ chk[c].result = None
      /\ chk[c].pc = "done" => chk[c].error = "" /\ chk[c].result # None

\* C15 witness: a check that failed in the Visual Verifier call for its second
\* escalated violation, after the first produced a visual verification.
C15_Witness ==
    \E c \in Checks :
        /\ chk[c].pc = "failed"
        /\ chk[c].error = "verify"
        /\ chk[c].visual_results # <<>>
        /\ chk[c].result = None

\* C16 as stated: a check whose cache upsert failed after a successful Visual
\* Verifier call does not end in Failed.
C16_UpsertFailureTolerated ==
    \A c \in Checks : chk[c].error = "upsert" => chk[c].pc # "failed"

\* C17 as stated: no check ends in Failed because the cache entry is missing
\* when it is read.
C17_MissingEntryNeverFails ==
    \A c \in Checks : ~(chk[c].pc = "failed" /\ chk[c].error = "cached")

\* C18: when a fresh Visual Verifier call for the escalated violation with
\* rule key R returns and the check goes on, the step that moves the check to
\* its next violation leaves the cache at (T, R) holding status 'compliant' or
\* 'non_compliant' after isCompliant, the call's confidence and method 'visual'.
C18_VerifiedThenUpserted ==
    [][ \A c \in Checks :
          (chk[c].pc = "verify" /\ chk'[c] # chk[c] /\ chk'[c].pc # "failed") =>
            LET k == chk[c].i
                visual_result == chk'[c].visual_results[k]
            IN  /\ chk'[c].i = k + 1
                /\ Len(chk'[c].visual_results) = k
                /\ \E row \in template_rules' :
                     /\ row.template_id = chk[c].template_id
                     /\ row.rule_key = Get(chk[c].needs_visual[k], "rule_key", "")
                     /\ row.status = IF visual_result.is_compliant
                                       THEN "compliant" ELSE "non_compliant"
                     /\ row.confidence = visual_result.confidence
                     /\ row.verification_method = "visual"
      ]_vars

\* C18 witness: a check that looks up its second escalated violation while the
\* cache holds the non-compliant outcome of the fresh verification of its first.
C18_Witness ==
    \E c \in Checks :
        /\ Len(chk[c].lookups) = 2
        /\ chk[c].calls # <<>> /\ chk[c].calls[1] = 1
        /\ ~chk[c].visual_results[1].is_compliant
        /\ \E row \in chk[c].lookups[2].rows \cup template_rules :
             /\ row.template_id = chk[c].template_id
             /\ row.rule_key = Get(chk[c].needs_visual[1], "rule_key", "")
             /\ row.status = "non_compliant"
             /\ row.verification_method = "visual"

\* C19 as stated: when check_url has returned or raised, every Playwright
\* driver and browser the check started has been closed.
C19_BrowsersClosedOnExit ==
    \A c \in Checks : chk[c].pc \in {"done", "failed"} => chk[c].open = {}

CachedKeys(rules) == { <<row.template_id, row.rule_key>> : row \in rules }

\* C20: a step of a check never removes a cache entry; a key leaves the cache
\* only in an operator request, the delete.
C20_OnlyOperatorDeletes ==
    [][ \A key \in CachedKeys(template_rules) \ CachedKeys(template_rules') :
          /\ ops' = ops + 1
          /\ chk' = chk
          /\ last_upsert'[key] = None
      ]_vars

\* C20 witness: a check has written an entry and the cache is empty again
\* after the operator's delete.
C20_Witness ==
    /\ template_rules = {}
    /\ ops = 1
    /\ \E c \in Checks : chk[c].writes # <<>>

StageRank(stage) ==
    CASE stage = "Fetch" -> 1
      [] stage = "ResolveTemplate" -> 2
      [] stage = "Extract" -> 3
      [] stage = "TextAnalyze" -> 4
      [] stage = "SelectEscalations" -> 5
      [] stage \in {"CacheLookup", "Visualize", "CacheUpsert"} -> 6
      [] stage = "Aggregate" -> 7

OnceStages ==
    {"Fetch", "ResolveTemplate", "Extract", "TextAnalyze", "SelectEscalations",
     "Aggregate"}

\* C22: the stages a check_url run has entered are in the order Fetch,
\* ResolveTemplate, Extract, TextAnalyze, SelectEscalations, the per-violation
\* loop, Aggregate: the first is Fetch, each next one is the same loop stage
\* again, the stage that follows in the order, or Aggregate right after
\* SelectEscalations (nothing escalated); so none but the loop's occurs twice.
\* A run that returned has entered Aggregate.
C22_StagesInOrderOnce ==
    \A c \in Checks :
        LET stages == chk[c].stages
        IN  /\ stages # <<>> => stages[1] = "Fetch"
            /\ \A k \in 1..(Len(stages) - 1) :
                  LET a == StageRank(stages[k])
                      b == StageRank(stages[k + 1])
                  IN  /\ a <= b
                      /\ stages[k] \in OnceStages => a < b
                      /\ b <= a + 1 \/ (a = 5 /\ b = 7)
            /\ chk[c].pc = "done" => stages[Len(stages)] = "Aggregate"

C22_Witness ==
    \E c \in Checks :
        /\ chk[c].pc = "done"
        /\ Len(chk[c].needs_visual) = 2
        /\ \E k \in 1..Len(chk[c].stages) : chk[c].stages[k] = "CacheUpsert"
        /\ \E k \in 1..Len(chk[c].stages) :
               /\ chk[c].stages[k] = "CacheLookup"
               /\ chk[c].stages[k + 1] = "CacheLookup"

\* indices of the escalated violations handed to capture_and_verify whose
\* result has not been appended yet
InFlight(c) == { k \in Range(chk[c].calls) : k > Len(chk[c].visual_results) }

\* C23: in every state of a check at most one capture_and_verify call is
\* outstanding, and only while the check waits for it (or has failed in it);
\* the k-th entry of visual_results belongs to the k-th violation of
\* needs_visual: it is the copy of the decision read for that violation's
\* rule key when the lookup at k hit, and the result of the call made for k
\* (the one upserted under that violation's rule key) otherwise; the returned
\* list is visual_results and has one entry per escalated violation.
C23_OneAtATimeInOrder ==
    \A c \in Checks :
        LET visual_results == chk[c].visual_results
            needs_visual == chk[c].needs_visual
        IN  /\ Cardinality(InFlight(c)) <= 1
            /\ InFlight(c) # {}
                   => /\ chk[c].pc \in {"verify", "failed"}
                      /\ InFlight(c) = {Len(visual_results) + 1}
            /\ \A j, k \in 1..Len(chk[c].calls) :
                   j < k => chk[c].calls[j] < chk[c].calls[k]
            /\ Len(visual_results) <= Len(needs_visual)
            /\ \A k \in 1..Len(visual_results) :
                   LET rule_key == Get(needs_visual[k], "rule_key", "")
                   IN  IF k \in Range(chk[c].calls)
                         THEN /\ visual_results[k].verification_method = "visual"
                              /\ \/ \E w \in Range(chk[c].writes) :
                                       /\ w.i = k
                                       /\ w.rule_key = rule_key
                                       /\ w.decision = visual_decision(visual_results[k])
                                 \/ chk[c].error = "upsert" /\ k = Len(visual_results)
                         ELSE \E read \in Range(chk[c].reads) :
                                  /\ read.i = k
                                  /\ visual_results[k] =
                                         cached_visual_result(rule_key, read.cached)
            /\ chk[c].pc = "done"
                   => /\ chk[c].result.visual_verifications = visual_results
                      /\ Len(visual_results) = Len(needs_visual)

C23_Witness ==
    \E c \in Checks :
        /\ chk[c].pc = "done"
        /\ Len(chk[c].result.visual_verifications) = 2
        /\ chk[c].calls = <<2>>
        /\ Get(chk[c].needs_visual[1], "rule_key", "")
               # Get(chk[c].needs_visual[2], "rule_key", "")

\* C24: the visual verifications a check returns belong to escalated
\* violations of pairwise different rule keys (at most one per rule key).
C24_OneVerificationPerRuleKey ==
    \A c \in Checks :
        chk[c].pc = "done"
            => \A j, k \in 1..Len(chk[c].result.visual_verifications) :
                   j # k => Get(chk[c].needs_visual[j], "rule_key", "")
                                # Get(chk[c].needs_visual[k], "rule_key", "")

\* C25: every returned visual verification has a rule_key, that of the
\* escalated violation at its position, and a cached flag that is true for a
\* copy of a cached decision and false for the result of a fresh call.
C25_EntriesCarryRuleKeyAndFlag ==
    \A c \in Checks :
        chk[c].pc = "done"
            => \A k \in 1..Len(chk[c].result.visual_verifications) :
                   LET entry == chk[c].result.visual_verifications[k]
                   IN  /\ "rule_key" \in DOMAIN entry
                       /\ entry.rule_key = Get(chk[c].needs_visual[k], "rule_key", "")
                       /\ "cached" \in DOMAIN entry
                       /\ entry.cached = (k \notin Range(chk[c].calls))

\* C26: every step of a check_url run other than the return of a
\* capture_and_verify call leaves tables template_rules and templates as they
\* are, verified_date included; a run without such a call consists of these
\* steps only, so it changes no cache entry, and a hit does not refresh the
\* row it reads.
C26_OnlyVerifierReturnWrites ==
    [][\A c \in Checks :
           (/\ chk'[c] # chk[c]
            /\ ~(chk[c].pc = "verify" /\ chk'[c].pc = "loop"))
               => /\ template_rules' = template_rules
                  /\ templates' = templates]_vars

C26_Witness ==
    \E c \in Checks :
        /\ chk[c].pc = "done"
        /\ chk[c].calls = <<>>
        /\ chk[c].reads # <<>>
        /\ \A k \in 1..Len(chk[c].reads) :
               /\ chk[c].reads[k].cached.verified_date < now
               /\ \E row \in template_rules :
                      /\ row.template_id = chk[c].template_id
                      /\ row.rule_key = Get(chk[c].needs_visual[chk[c].reads[k].i],
                                            "rule_key", "")
                      /\ row.verified_date = chk[c].reads[k].cached.verified_date

\* C27: the step in which a check_url run fails changes no row of the cache
\* and the failed run has no result; as long as no later upsert or delete
\* touched the key, the decision a failed run upserted is the row of the
\* cache, and the lookup of a later check that finds it reads that decision.
C27_FailureKeepsUpserts ==
    [][\A c \in Checks :
           /\ (/\ chk'[c].pc = "failed" /\ chk[c].pc # "failed"
               /\ chk'[c].serial = chk[c].serial)
                  => /\ template_rules' = template_rules
                     /\ templates' = templates
                     /\ chk'[c].result = None
                     /\ chk'[c].writes = chk[c].writes
           /\ chk'[c].pc = "failed"
                  => \A w \in Range(chk'[c].writes) :
                         LET key == <<chk'[c].template_id, w.rule_key>>
                         IN  (/\ last_upsert'[key] # None
                              /\ last_upsert'[key].by = chk'[c].serial
                              /\ last_upsert'[key].decision = w.decision)
                                 => \E row \in RowsAt(template_rules', key[1], key[2]) :
                                        DecisionOf(row) = w.decision]_vars

C27_Witness ==
    \E c, later \in Checks :
        /\ chk[c].pc = "failed"
        /\ chk[c].writes # <<>>
        /\ chk[later].serial > chk[c].serial
        /\ \E k \in 1..Len(chk[later].lookups) :
               /\ chk[later].lookups[k].by = chk[c].serial
               /\ chk[later].lookups[k].skip
               /\ \E read \in Range(chk[later].reads) :
                      /\ read.i = chk[later].lookups[k].i
                      /\ read.cached.confidence = chk[c].writes[1].decision.confidence

\* the cache holds a decision of confidence >= 0.85 at the key
HeldAt(rules, key) ==
    \E row \in RowsAt(rules, key[1], key[2]) : row.confidence >= confidence_threshold

\* C28, first statement: with no operator request served, a key that holds a
\* decision of confidence >= 0.85 holds one after every step.
C28_HeldStaysHeld ==
    [][ops' = 0 =>
           \A key \in Keys :
               HeldAt(template_rules, key) => HeldAt(template_rules', key)]_vars

\* C28, with the lookup condition: a step that is not an operator request
\* changes the row of a key holding a decision of confidence >= 0.85 only as
\* the upsert of a check whose own lookup for that key found no such decision,
\* that is, a lookup made before the decision was written by someone else.
C28_ReplacedOnlyAfterEarlierMiss ==
    [][ops' = ops =>
           \A key \in Keys :
               (/\ HeldAt(template_rules, key)
                /\ RowsAt(template_rules', key[1], key[2])
                       # RowsAt(template_rules, key[1], key[2]))
                   => \E c \in Checks :
                          /\ chk[c].pc = "verify" /\ chk'[c].pc = "loop"
                          /\ chk[c].template_id = key[1]
                          /\ CurrentRuleKey(c) = key[2]
                          /\ ~Held(chk[c].lookups[Len(chk[c].lookups)])
                          /\ last_upsert[key].by # chk[c].serial]_vars

C28_Witness ==
    \E c, d \in Checks :
        /\ ops = 0
        /\ c # d
        /\ chk[c].template_id = chk[d].template_id
        /\ chk[c].writes # <<>> /\ chk[d].writes # <<>>
        /\ chk[c].writes[1].rule_key = chk[d].writes[1].rule_key
        /\ chk[c].writes[1].decision.confidence >= confidence_threshold
        /\ chk[d].writes[1].decision.confidence < confidence_threshold
        /\ ~Held(chk[d].lookups[1])
        /\ last_upsert[<<chk[d].template_id, chk[d].writes[1].rule_key>>] # None
        /\ last_upsert[<<chk[d].template_id, chk[d].writes[1].rule_key>>].by
               = chk[d].serial
        /\ ~HeldAt(template_rules, <<chk[d].template_id, chk[d].writes[1].rule_key>>)

KnownPlatforms == {"dealer.com", "DealerOn", "CDK", "AutoTrader"}

Content(row) ==
    [platform |-> row.platform, selectors |-> row.selectors,
     cleanup_rules |-> row.cleanup_rules, extraction_order |-> row.extraction_order]

DefaultIds == { d.template_id : d \in DefaultTemplates }

\* C30: after an ExtractionTemplateManager is constructed the table holds,
\* under each of the eight built-in ids, exactly one row and its content is
\* the built-in one, whatever row was stored under that id before; every row
\* stored before under another id is still there unchanged; no other id
\* appears.
C30_ConstructionReseedsBuiltins ==
    probe.fn = "ExtractionTemplateManager"
        => /\ Cardinality(DefaultIds) = 8
           /\ \A d \in DefaultTemplates :
                  /\ \E row \in probe.store :
                         /\ row.template_id = d.template_id
                         /\ Content(row) = Content(d)
                  /\ \A row, other \in probe.store :
                         (row.template_id = d.template_id
                          /\ other.template_id = d.template_id) => row = other
           /\ \A row \in probe.before :
                  row.template_id \notin DefaultIds => row \in probe.store
           /\ { row.template_id : row \in probe.store }
                  = { row.template_id : row \in probe.before } \cup DefaultIds

C30_Witness ==
    /\ probe.fn = "ExtractionTemplateManager"
    /\ \E row \in probe.before :
           /\ row.template_id = "vdp_default"
           /\ \A d \in DefaultTemplates : Content(row) # Content(d)
    /\ \E row \in probe.before :
           /\ row.template_id = "dealer.com_vdp"
           /\ \A d \in DefaultTemplates : Content(row) # Content(d)
    /\ \E row \in probe.before : row.template_id = "url_a_com"
    /\ extraction_templates = probe.store
====
